---- MODULE Spec2Model ----
(***************************************************************************)
(* Counting semaphore of the kernel (pkg/os/src/os_sem.c): os_sem_create,  *)
(* os_sem_release, os_sem_pend and os_sem_delete over the intrusive,       *)
(* singly linked, priority ordered list of waiting tasks.                  *)
(*                                                                         *)
(* A context is a task (1..NTasks) or the interrupt handler (ISR).  A      *)
(* critical section (OS_ENTER_CRITICAL .. OS_EXIT_CRITICAL) masks          *)
(* interrupts on the single CPU: while `crit` names a context, only that   *)
(* context takes steps.  Outside critical sections any context that is not *)
(* asleep may take the next step: task selection belongs to the external   *)
(* scheduler and is left open.                                             *)
(***************************************************************************)
EXTENDS Integers, Sequences, FiniteSets, TLC

\* ---- bounds of the model ----
NTasks == 3
NSems == 2
MaxInitTokens == 1
\* calls made in one behaviour of Spec: in all, and of each function
MaxOps == 4
MaxPends == 2
MaxReleases == 2
MaxDeletes == 1
MaxCreates == 1
\* calls made in one behaviour of SpecArgs: in all, and with a NULL semaphore pointer
MaxArgsOps == 3
MaxInvalid == 2
\* calls made in one behaviour of SpecOrder (one semaphore, pend and release only)
MaxOrderPends == 4
MaxOrderReleases == 2

\* ---- program constants ----
NULL == 0
TokenWidth == 16
\* 0xFFFFFFFF (wait forever), held as the signed reading of that 32-bit pattern
OS_TIMEOUT_NEVER == -1
NoWait == 0
OneTick == 1
OS_IDLE_PRIO == 255

ISR == 0
Tasks == 1..NTasks
IdleTask == NTasks + 1
Ctx == {ISR} \cup Tasks
Sems == 1..NSems
Timeouts == {NoWait, OneTick, OS_TIMEOUT_NEVER}
HANG == -1

VARIABLES
    sem_tokens,   \* sem_tokens[s]: sem->sem_tokens (uint16_t)
    sem_head,     \* sem_head[s]: SLIST_FIRST(&sem->sem_head), a task or NULL
    t_flags,      \* t_flags[t]: OS_TASK_FLAG_SEM_WAIT bit of t->t_flags
    t_sem_list,   \* t_sem_list[t]: SLIST_NEXT(t, t_sem_list), a task or NULL
    t_prio,       \* t_prio[t]: t->t_prio, fixed at task creation
    t_state,      \* t_state[t]: "ready" or "sleep" (scheduler)
    crit,         \* the context inside a critical section, or -1
    pc,           \* pc[c]: position of context c
    op,           \* op[c]: the operation context c is in ("none" when idle)
    sem,          \* sem[c]: the sem argument of that operation
    timeout,      \* timeout[c]: pend's timeout argument
    rc,           \* rc[c]: the local rc / return value
    sched,        \* sched[c]: pend's local sched, release's local resched
    rdy,          \* rdy[c]: release's and delete's local rdy
    live,         \* live[s]: created and not deleted since
    clean,        \* no timeout has expired and no delete has run
    expected,     \* expected[s]: initial tokens + completed releases - Ok pends
    granted,      \* granted[t]: a release dequeued t during t's present pend
    evicted,      \* evicted[t]: a delete dequeued t during t's present pend
    arrivals,     \* arrivals[s]: tasks enqueued on s and not yet dequeued, in arrival order
    quota         \* quota[k]: calls of kind k still to be made in this behaviour

semvars == <<sem_tokens, sem_head>>
taskvars == <<t_flags, t_sem_list, t_prio, t_state>>
localvars == <<op, sem, timeout, rc, sched, rdy>>
ghostvars == <<live, clean, expected, granted, evicted, arrivals, quota>>
vars == <<sem_tokens, sem_head, t_flags, t_sem_list, t_prio, t_state, crit, pc,
          op, sem, timeout, rc, sched, rdy,
          live, clean, expected, granted, evicted, arrivals, quota>>

NoCrit == -1

\* Priorities given to the tasks at creation (lower value = higher priority):
\* the first two tasks share the highest priority, the others follow (1, 1, 3, 5, ...).
TaskPrio == [t \in Tasks |-> IF t <= 2 THEN 1 ELSE 2 * t - 3]

\* The state after the tasks are initialised and os_sem_create(sem, n) has
\* returned for each semaphore of made, with n up to maxtok; the other
\* semaphores are zeroed memory.
InitWith(made, maxtok, q) ==
    /\ sem_tokens \in [Sems -> 0..maxtok]
    /\ \A s \in Sems \ made : sem_tokens[s] = 0
    /\ sem_head = [s \in Sems |-> NULL]
    /\ t_flags = [t \in Tasks |-> FALSE]
    /\ t_sem_list = [t \in Tasks |-> NULL]
    /\ t_prio = TaskPrio
    /\ t_state = [t \in Tasks |-> "ready"]
    /\ crit = NoCrit
    /\ pc = [c \in Ctx |-> "idle"]
    /\ op = [c \in Ctx |-> "none"]
    /\ sem = [c \in Ctx |-> NULL]
    /\ timeout = [c \in Ctx |-> NoWait]
    /\ rc = [c \in Ctx |-> "none"]
    /\ sched = [c \in Ctx |-> FALSE]
    /\ rdy = [c \in Ctx |-> NULL]
    /\ live = [s \in Sems |-> s \in made]
    /\ clean = TRUE
    /\ expected = sem_tokens
    /\ granted = [t \in Tasks |-> FALSE]
    /\ evicted = [t \in Tasks |-> FALSE]
    /\ arrivals = [s \in Sems |-> <<>>]
    /\ quota = q

Init ==
    InitWith(Sems, MaxInitTokens,
             [all |-> MaxOps, pend |-> MaxPends, release |-> MaxReleases,
              delete |-> MaxDeletes, create |-> MaxCreates, invalid |-> 0])

\* ---- helpers ----

\* t->t_prio, also for the idle task (the lowest priority of all)
PrioOf(t) == IF t = IdleTask THEN OS_IDLE_PRIO ELSE t_prio[t]

\* sequence q without task t
RECURSIVE Without(_, _)
Without(q, t) ==
    IF q = <<>> THEN <<>>
    ELSE IF Head(q) = t THEN Without(Tail(q), t)
    ELSE <<Head(q)>> \o Without(Tail(q), t)

\* the tasks of sequence q as a set
Members(q) == {q[i] : i \in 1..Len(q)}

\* The wait list of a semaphore as the pointers give it: the tasks reached
\* from `first` through t_sem_list, at most `fuel` of them.
RECURSIVE Chain(_, _, _)
Chain(next, first, fuel) ==
    IF first = NULL \/ fuel = 0 THEN <<>>
    ELSE <<first>> \o Chain(next, next[first], fuel - 1)

\* the wait list of semaphore s
WaitQueue(s) == Chain(t_sem_list, sem_head[s], NTasks + 1)

\* os_sched_wakeup(t, 0, 0): the task is made ready
os_sched_wakeup(state, t) == [state EXCEPT ![t] = "ready"]

\* os_sched_sleep(t, timeout): the task is suspended
os_sched_sleep(state, t) == [state EXCEPT ![t] = "sleep"]

\* os_sched_next_task(0): a ready task of the highest priority, or the idle task
os_sched_next_task(state) ==
    LET ready == {t \in Tasks : state[t] = "ready"} IN
    IF ready = {} THEN {IdleTask}
    ELSE {t \in ready : \A u \in ready : t_prio[t] <= t_prio[u]}

\* os_sched_get_current_task(): the calling task; in the interrupt handler,
\* the task that was interrupted.
os_sched_get_current_task(c) ==
    IF c = ISR THEN {t \in Tasks : t_state[t] = "ready"} \cup {IdleTask} ELSE {c}

\* a context may take a step: no one else masks interrupts, the interrupt
\* handler runs to completion, and a sleeping task does not run
CanRun(c) ==
    /\ crit \in {NoCrit, c}
    /\ c # ISR => pc[ISR] = "idle"

\* a call is made from an idle context, while the behaviour's quota lasts
CanCall(c) ==
    /\ pc[c] = "idle"
    /\ crit = NoCrit
    /\ CanRun(c)
    /\ quota.all > 0

\* one call of kind k is taken from the quota
Spend(k) ==
    /\ quota[k] > 0
    /\ quota' = [quota EXCEPT !.all = @ - 1, ![k] = @ - 1]

\* ---- os_sem_create ----

\* os_sem_create, lines 41-45: sem->sem_tokens = tokens.  No critical section
\* is entered.  The caller creates a semaphore that is not in use.
CreateTokens(c, s, n) ==
    /\ CanCall(c)
    /\ c # ISR
    /\ ~live[s]
    /\ \A d \in Ctx : pc[d] = "create_head" => sem[d] # s
    /\ sem_tokens' = [sem_tokens EXCEPT ![s] = n]
    /\ pc' = [pc EXCEPT ![c] = "create_head"]
    /\ op' = [op EXCEPT ![c] = "create"]
    /\ sem' = [sem EXCEPT ![c] = s]
    /\ Spend("create")
    /\ UNCHANGED <<sem_head, taskvars, crit, timeout, rc, sched, rdy,
                   live, clean, expected, granted, evicted, arrivals>>

\* os_sem_create, lines 46-48: SLIST_FIRST(&sem->sem_head) = NULL; return OS_OK
CreateHead(c) ==
    /\ pc[c] = "create_head"
    /\ CanRun(c)
    /\ sem_head' = [sem_head EXCEPT ![sem[c]] = NULL]
    /\ live' = [live EXCEPT ![sem[c]] = TRUE]
    /\ pc' = [pc EXCEPT ![c] = "idle"]
    /\ op' = [op EXCEPT ![c] = "none"]
    /\ sem' = [sem EXCEPT ![c] = NULL]
    /\ UNCHANGED <<sem_tokens, taskvars, crit, timeout, rc, sched, rdy,
                   clean, expected, granted, evicted, arrivals, quota>>

\* ---- os_sem_release ----

\* mutant: the release adds two tokens
TokensAfterReleaseTwice(n) == (n + 2) % (2 ^ TokenWidth)

\* sem->sem_tokens++ on a uint16_t
TokensAfterRelease(n) == (n + 1) % (2 ^ TokenWidth)

\* mutant: the release adds a token also when it wakes a waiter
ReleaseStepBanks(tokens, head, next, flags, state) ==
    IF head # NULL
    THEN [tokens |-> TokensAfterRelease(tokens),
          head |-> next[head],
          next |-> [next EXCEPT ![head] = NULL],
          flags |-> [flags EXCEPT ![head] = FALSE],
          state |-> os_sched_wakeup(state, head),
          rdy |-> head]
    ELSE [tokens |-> TokensAfterRelease(tokens),
          head |-> head,
          next |-> next,
          flags |-> flags,
          state |-> state,
          rdy |-> NULL]

\* os_sem_release, lines 82-101, on the semaphore's fields and the tasks':
\* the head of the wait list, if there is one, has its wait flag cleared, is
\* unlinked and woken; else a token is added.
ReleaseStep(tokens, head, next, flags, state) ==
    IF head # NULL
    THEN [tokens |-> tokens,
          head |-> next[head],
          next |-> [next EXCEPT ![head] = NULL],
          flags |-> [flags EXCEPT ![head] = FALSE],
          state |-> os_sched_wakeup(state, head),
          rdy |-> head]
    ELSE [tokens |-> TokensAfterRelease(tokens),
          head |-> head,
          next |-> next,
          flags |-> flags,
          state |-> state,
          rdy |-> NULL]

\* mutant: a reschedule is also asked for when the priorities are equal
ReleaseReschedOnTie(cur, woken) == woken # NULL /\ PrioOf(cur) >= PrioOf(woken)

\* os_sem_release, line 95: current->t_prio > rdy->t_prio
ReleaseResched(cur, woken) == woken # NULL /\ PrioOf(cur) > PrioOf(woken)

\* the tasks inside os_sem_pend on s that have linked themselves and not returned
Waiting(s) ==
    {t \in Tasks : /\ op[t] = "pend"
                   /\ sem[t] = s
                   /\ pc[t] \in {"pend_sleep", "pend_asleep", "pend_to"}}

\* the tasks inside os_sem_pend that have linked themselves and not returned
InPend == UNION {Waiting(s) : s \in Sems}

\* os_sem_release, lines 71-101: the call, OS_ENTER_CRITICAL and the body of
\* the critical section
ReleaseBody(c, s, cur) ==
    /\ CanCall(c)
    /\ live[s]
    /\ cur \in os_sched_get_current_task(c)
    /\ crit' = c
    /\ LET r == ReleaseStep(sem_tokens[s], sem_head[s], t_sem_list, t_flags, t_state)
       IN /\ sem_tokens' = [sem_tokens EXCEPT ![s] = r.tokens]
          /\ sem_head' = [sem_head EXCEPT ![s] = r.head]
          /\ t_sem_list' = r.next
          /\ t_flags' = r.flags
          /\ t_state' = r.state
          /\ rdy' = [rdy EXCEPT ![c] = r.rdy]
          /\ sched' = [sched EXCEPT ![c] = ReleaseResched(cur, r.rdy)]
          /\ granted' = [t \in Tasks |-> granted[t] \/ (t = r.rdy /\ t \in Waiting(s))]
          /\ arrivals' = [x \in Sems |-> Without(arrivals[x], r.rdy)]
    /\ pc' = [pc EXCEPT ![c] = "rel_exit"]
    /\ op' = [op EXCEPT ![c] = "release"]
    /\ sem' = [sem EXCEPT ![c] = s]
    /\ expected' = IF clean THEN [expected EXCEPT ![s] = @ + 1] ELSE expected
    /\ Spend("release")
    /\ UNCHANGED <<t_prio, timeout, rc, live, clean, evicted>>

\* the locals of a call go out of scope as it returns
Leave(c) ==
    /\ pc' = [pc EXCEPT ![c] = "idle"]
    /\ op' = [op EXCEPT ![c] = "none"]
    /\ sem' = [sem EXCEPT ![c] = NULL]
    /\ timeout' = [timeout EXCEPT ![c] = NoWait]
    /\ rc' = [rc EXCEPT ![c] = "none"]
    /\ sched' = [sched EXCEPT ![c] = FALSE]
    /\ rdy' = [rdy EXCEPT ![c] = NULL]

\* mutant: the token is added after the critical section has been left
ReleaseExitBanks(c) ==
    /\ pc[c] = "rel_exit"
    /\ crit = c
    /\ crit' = NoCrit
    /\ sem_tokens' = [sem_tokens EXCEPT ![sem[c]] = TokensAfterRelease(@)]
    /\ Leave(c)
    /\ UNCHANGED <<sem_head, taskvars, ghostvars>>

\* os_sem_release, lines 103-110: OS_EXIT_CRITICAL, the test of resched, and
\* return OS_OK when no reschedule is due
ReleaseExit(c) ==
    /\ pc[c] = "rel_exit"
    /\ crit = c
    /\ crit' = NoCrit
    /\ IF sched[c]
       THEN /\ pc' = [pc EXCEPT ![c] = "rel_sched"]
            /\ UNCHANGED localvars
       ELSE Leave(c)
    /\ UNCHANGED <<semvars, taskvars, ghostvars>>

\* os_sem_release, lines 107-110: os_sched(rdy, 0); return OS_OK
ReleaseSched(c) ==
    /\ pc[c] = "rel_sched"
    /\ CanRun(c)
    /\ Leave(c)
    /\ UNCHANGED <<semvars, taskvars, crit, ghostvars>>

\* ---- os_sem_pend ----

\* mutant: a pend that finds no token waits even when its timeout is 0
PendBranchWaits(tokens, to) == IF tokens # 0 THEN "take" ELSE "block"

\* os_sem_pend, lines 154-159: which branch the critical section takes
PendBranch(tokens, to) ==
    IF tokens # 0 THEN "take"
    ELSE IF to = NoWait THEN "fail"
    ELSE "block"

\* mutant: the pend leaves the token where it is
TokensAfterTakeKept(n) == n

\* sem->sem_tokens-- (line 155)
TokensAfterTake(n) == n - 1

\* os_sem_pend, line 166: the scan stops before entry
ScanStops(cur, entry) == t_prio[cur] < t_prio[entry]

\* os_sem_pend, lines 162-171: SLIST_FOREACH from entry with `last` so far;
\* the value of `last` when the loop ends, or HANG when the loop has visited
\* more entries than there are tasks (the list is cyclic and the loop never ends).
RECURSIVE PendScan(_, _, _, _, _)
PendScan(next, entry, last, cur, fuel) ==
    IF entry = NULL THEN last
    ELSE IF ScanStops(cur, entry) THEN last
    ELSE IF fuel = 0 THEN HANG
    ELSE PendScan(next, next[entry], entry, cur, fuel - 1)

\* os_sem_pend, lines 173-177: SLIST_INSERT_AFTER(last, current) or
\* SLIST_INSERT_HEAD(&sem->sem_head, current)
PendInsert(next, head, last, cur) ==
    IF last # NULL
    THEN [head |-> head,
          next |-> [[next EXCEPT ![cur] = next[last]] EXCEPT ![last] = cur]]
    ELSE [head |-> cur,
          next |-> [next EXCEPT ![cur] = head]]

\* os_sem_pend, lines 140-181: the call, OS_ENTER_CRITICAL and the body of the
\* first critical section
PendBody(c, s, to) ==
    /\ CanCall(c)
    /\ c # ISR
    /\ live[s]
    /\ crit' = c
    /\ op' = [op EXCEPT ![c] = "pend"]
    /\ sem' = [sem EXCEPT ![c] = s]
    /\ timeout' = [timeout EXCEPT ![c] = to]
    /\ Spend("pend")
    /\ LET branch == PendBranch(sem_tokens[s], to)
           last == PendScan(t_sem_list, sem_head[s], NULL, c, NTasks)
           ins == PendInsert(t_sem_list, sem_head[s], last, c)
       IN CASE branch = "take" ->
                 /\ sem_tokens' = [sem_tokens EXCEPT ![s] = TokensAfterTake(sem_tokens[s])]
                 /\ rc' = [rc EXCEPT ![c] = "OS_OK"]
                 /\ pc' = [pc EXCEPT ![c] = "pend_exit"]
                 /\ expected' = IF clean THEN [expected EXCEPT ![s] = @ - 1] ELSE expected
                 /\ UNCHANGED <<sem_head, t_flags, t_sem_list, sched, arrivals>>
            [] branch = "fail" ->
                 /\ rc' = [rc EXCEPT ![c] = "OS_TIMEOUT"]
                 /\ pc' = [pc EXCEPT ![c] = "pend_exit"]
                 /\ UNCHANGED <<sem_tokens, sem_head, t_flags, t_sem_list, sched,
                                arrivals, expected>>
            [] branch = "block" /\ last = HANG ->
                 /\ t_flags' = [t_flags EXCEPT ![c] = TRUE]
                 /\ pc' = [pc EXCEPT ![c] = "pend_spin"]
                 /\ UNCHANGED <<sem_tokens, sem_head, t_sem_list, rc, sched,
                                arrivals, expected>>
            [] branch = "block" /\ last # HANG ->
                 /\ t_flags' = [t_flags EXCEPT ![c] = TRUE]
                 /\ sem_head' = [sem_head EXCEPT ![s] = ins.head]
                 /\ t_sem_list' = ins.next
                 /\ sched' = [sched EXCEPT ![c] = TRUE]
                 /\ pc' = [pc EXCEPT ![c] = "pend_exit"]
                 /\ arrivals' = [arrivals EXCEPT ![s] = Append(Without(arrivals[s], c), c)]
                 /\ UNCHANGED <<sem_tokens, rc, expected>>
    /\ UNCHANGED <<t_prio, t_state, rdy, live, clean, granted, evicted>>

\* mutant: the critical section is still held when sched is tested
PendExitHolds(c) ==
    /\ pc[c] = "pend_exit"
    /\ crit = c
    /\ pc' = [pc EXCEPT ![c] = IF sched[c] THEN "pend_sleep" ELSE "ret"]
    /\ UNCHANGED <<semvars, taskvars, crit, localvars, ghostvars>>

\* os_sem_pend, lines 183-185: OS_EXIT_CRITICAL and the test of sched
PendExit(c) ==
    /\ pc[c] = "pend_exit"
    /\ crit = c
    /\ crit' = NoCrit
    /\ pc' = [pc EXCEPT ![c] = IF sched[c] THEN "pend_sleep" ELSE "ret"]
    /\ UNCHANGED <<semvars, taskvars, localvars, ghostvars>>

\* os_sem_pend, line 186: os_sched_sleep(current, timeout)
PendSleep(c) ==
    /\ pc[c] = "pend_sleep"
    /\ CanRun(c)
    /\ t_state' = os_sched_sleep(t_state, c)
    /\ pc' = [pc EXCEPT ![c] = "pend_asleep"]
    /\ UNCHANGED <<semvars, t_flags, t_sem_list, t_prio, crit, localvars, ghostvars>>

\* the timer tick in the scheduler: a sleep with a finite timeout expires
TimerExpire(t) ==
    /\ pc[t] = "pend_asleep"
    /\ t_state[t] = "sleep"
    /\ timeout[t] # OS_TIMEOUT_NEVER
    /\ crit = NoCrit
    /\ pc[ISR] = "idle"
    /\ t_state' = os_sched_wakeup(t_state, t)
    /\ clean' = FALSE
    /\ expected' = [s \in Sems |-> 0]
    /\ UNCHANGED <<semvars, t_flags, t_sem_list, t_prio, crit, pc, localvars,
                   live, granted, evicted, arrivals, quota>>

\* os_sem_pend, lines 186-199: os_sched_sleep returns and the wait flag is
\* read (line 192), outside any critical section
PendResume(c) ==
    /\ pc[c] = "pend_asleep"
    /\ t_state[c] = "ready"
    /\ CanRun(c)
    /\ IF t_flags[c]
       THEN /\ pc' = [pc EXCEPT ![c] = "pend_to"]
            /\ UNCHANGED <<rc, expected>>
       ELSE /\ pc' = [pc EXCEPT ![c] = "ret"]
            /\ rc' = [rc EXCEPT ![c] = "OS_OK"]
            /\ expected' = IF clean THEN [expected EXCEPT ![sem[c]] = @ - 1] ELSE expected
    /\ arrivals' = [x \in Sems |-> Without(arrivals[x], c)]
    /\ UNCHANGED <<semvars, taskvars, crit, op, sem, timeout, sched, rdy,
                   live, clean, granted, evicted, quota>>

\* os_sem_pend, lines 193-194: OS_ENTER_CRITICAL on the timeout path and
\* current->t_flags &= ~OS_TASK_FLAG_SEM_WAIT
PendTimeoutClear(c) ==
    /\ pc[c] = "pend_to"
    /\ crit = NoCrit
    /\ CanRun(c)
    /\ crit' = c
    /\ t_flags' = [t_flags EXCEPT ![c] = FALSE]
    /\ pc' = [pc EXCEPT ![c] = "pend_to_exit"]
    /\ UNCHANGED <<semvars, t_sem_list, t_prio, t_state, localvars, ghostvars>>

\* os_sem_pend, lines 195-196: OS_EXIT_CRITICAL; rc = OS_TIMEOUT
PendTimeoutExit(c) ==
    /\ pc[c] = "pend_to_exit"
    /\ crit = c
    /\ crit' = NoCrit
    /\ rc' = [rc EXCEPT ![c] = "OS_TIMEOUT"]
    /\ pc' = [pc EXCEPT ![c] = "ret"]
    /\ UNCHANGED <<semvars, taskvars, op, sem, timeout, sched, rdy, ghostvars>>

\* os_sem_pend, line 202: return rc
PendReturn(c) ==
    /\ pc[c] = "ret"
    /\ CanRun(c)
    /\ Leave(c)
    /\ granted' = [granted EXCEPT ![c] = FALSE]
    /\ evicted' = [evicted EXCEPT ![c] = FALSE]
    /\ UNCHANGED <<semvars, taskvars, crit, live, clean, expected, arrivals, quota>>

\* ---- os_sem_delete ----

\* os_sem_delete, lines 237-242: the loop that empties the wait list; `woken`
\* lists the tasks in the order the loop wakes them
RECURSIVE DeleteDrain(_, _, _, _)
DeleteDrain(head, next, state, woken) ==
    IF head = NULL
    THEN [head |-> head, next |-> next, state |-> state, woken |-> woken]
    ELSE DeleteDrain(next[head],
                     [next EXCEPT ![head] = NULL],
                     os_sched_wakeup(state, head),
                     Append(woken, head))

\* mutant: the drain loop clears the wait flag of each task it wakes
FlagsAfterDeleteCleared(flags, woken) ==
    [t \in Tasks |-> flags[t] /\ t \notin Members(woken)]

\* os_sem_delete, lines 237-242: the drain loop has no statement on t_flags;
\* the wait flags of the tasks it wakes are as they were
FlagsAfterDelete(flags, woken) == flags

\* os_sem_delete, lines 224-248: the call, OS_ENTER_CRITICAL and the body of
\* the critical section
DeleteBody(c, s, nxt) ==
    /\ CanCall(c)
    /\ c # ISR
    /\ live[s]
    /\ crit' = c
    /\ LET d == DeleteDrain(sem_head[s], t_sem_list, t_state, <<>>)
       IN /\ sem_tokens' = [sem_tokens EXCEPT ![s] = 0]
          /\ sem_head' = [sem_head EXCEPT ![s] = d.head]
          /\ t_sem_list' = d.next
          /\ t_state' = d.state
          /\ nxt \in os_sched_next_task(d.state)
          /\ rdy' = [rdy EXCEPT ![c] = nxt]
          /\ \E cur \in os_sched_get_current_task(c) :
                sched' = [sched EXCEPT ![c] = (nxt # cur)]
          /\ arrivals' = [x \in Sems |->
                             SelectSeq(arrivals[x], LAMBDA t : t \notin Members(d.woken))]
          /\ evicted' = [t \in Tasks |->
                            evicted[t] \/ (t \in Members(d.woken) /\ t \in InPend)]
          /\ t_flags' = FlagsAfterDelete(t_flags, d.woken)
    /\ live' = [live EXCEPT ![s] = FALSE]
    /\ clean' = FALSE
    /\ expected' = [x \in Sems |-> 0]
    /\ pc' = [pc EXCEPT ![c] = "del_exit"]
    /\ op' = [op EXCEPT ![c] = "delete"]
    /\ sem' = [sem EXCEPT ![c] = s]
    /\ Spend("delete")
    /\ UNCHANGED <<t_prio, timeout, rc, granted>>

\* os_sem_delete, lines 248-256: OS_EXIT_CRITICAL on either branch, and
\* return OS_OK when no reschedule is due
DeleteExit(c) ==
    /\ pc[c] = "del_exit"
    /\ crit = c
    /\ crit' = NoCrit
    /\ IF sched[c]
       THEN /\ pc' = [pc EXCEPT ![c] = "del_sched"]
            /\ UNCHANGED localvars
       ELSE Leave(c)
    /\ UNCHANGED <<semvars, taskvars, ghostvars>>

\* os_sem_delete, lines 251-256: os_sched(rdy, 0); return OS_OK
DeleteSched(c) ==
    /\ pc[c] = "del_sched"
    /\ CanRun(c)
    /\ Leave(c)
    /\ UNCHANGED <<semvars, taskvars, crit, ghostvars>>

\* ---- the check of the semaphore pointer ----

\* the functions of os_sem.c
Functions == {"create", "release", "pend", "delete"}

\* mutant: a NULL semaphore pointer is reported as success
RcForNullSemOk == "OS_OK"

\* the value returned for a NULL semaphore pointer (lines 42, 72, 141, 225)
RcForNullSem == "OS_INVALID_PARM"

\* os_sem_create, os_sem_release, os_sem_pend, os_sem_delete called with
\* sem == NULL: if (!sem) { return OS_INVALID_PARM; } is the first statement of
\* each (lines 41-43, 71-73, 140-142, 224-226).  The interrupt handler calls
\* os_sem_release only.
InvalidParm(c, f) ==
    /\ CanCall(c)
    /\ c = ISR => f = "release"
    /\ op' = [op EXCEPT ![c] = f]
    /\ sem' = [sem EXCEPT ![c] = NULL]
    /\ rc' = [rc EXCEPT ![c] = RcForNullSem]
    /\ pc' = [pc EXCEPT ![c] = "inval"]
    /\ Spend("invalid")
    /\ UNCHANGED <<semvars, taskvars, crit, timeout, sched, rdy,
                   live, clean, expected, granted, evicted, arrivals>>

\* the return of OS_INVALID_PARM to the caller
InvalidReturn(c) ==
    /\ pc[c] = "inval"
    /\ CanRun(c)
    /\ Leave(c)
    /\ UNCHANGED <<semvars, taskvars, crit, ghostvars>>

\* ---- the system ----

Next ==
    \/ \E c \in Tasks, s \in Sems, n \in 0..MaxInitTokens : CreateTokens(c, s, n)
    \/ \E c \in Tasks : CreateHead(c)
    \/ \E c \in Ctx, s \in Sems, cur \in Tasks \cup {IdleTask} : ReleaseBody(c, s, cur)
    \/ \E c \in Ctx : ReleaseExit(c)
    \/ \E c \in Ctx : ReleaseSched(c)
    \/ \E c \in Tasks, s \in Sems, to \in Timeouts : PendBody(c, s, to)
    \/ \E c \in Tasks : PendExit(c)
    \/ \E c \in Tasks : PendSleep(c)
    \/ \E t \in Tasks : TimerExpire(t)
    \/ \E c \in Tasks : PendResume(c)
    \/ \E c \in Tasks : PendTimeoutClear(c)
    \/ \E c \in Tasks : PendTimeoutExit(c)
    \/ \E c \in Tasks : PendReturn(c)
    \/ \E c \in Tasks, s \in Sems, nxt \in Tasks \cup {IdleTask} : DeleteBody(c, s, nxt)
    \/ \E c \in Tasks : DeleteExit(c)
    \/ \E c \in Tasks : DeleteSched(c)

Spec == Init /\ [][Next]_vars

\* The four functions called with a semaphore or with NULL.
InitArgs ==
    InitWith(Sems, MaxInitTokens,
             [all |-> MaxArgsOps, pend |-> MaxPends, release |-> MaxReleases,
              delete |-> MaxDeletes, create |-> MaxCreates, invalid |-> MaxInvalid])

NextArgs ==
    \/ Next
    \/ \E c \in Ctx, f \in Functions : InvalidParm(c, f)
    \/ \E c \in Ctx : InvalidReturn(c)

SpecArgs == InitArgs /\ [][NextArgs]_vars

\* One semaphore, created with no tokens, which the tasks pend on and the
\* interrupt handler releases: longer runs of pend and release.
InitOrder ==
    InitWith({1}, 0,
             [all |-> MaxOrderPends + MaxOrderReleases, pend |-> MaxOrderPends,
              release |-> MaxOrderReleases, delete |-> 0, create |-> 0, invalid |-> 0])

NextOrder ==
    \/ \E s \in Sems, cur \in Tasks \cup {IdleTask} : ReleaseBody(ISR, s, cur)
    \/ ReleaseExit(ISR)
    \/ ReleaseSched(ISR)
    \/ \E c \in Tasks, s \in Sems, to \in Timeouts : PendBody(c, s, to)
    \/ \E c \in Tasks : PendExit(c)
    \/ \E c \in Tasks : PendSleep(c)
    \/ \E t \in Tasks : TimerExpire(t)
    \/ \E c \in Tasks : PendResume(c)
    \/ \E c \in Tasks : PendTimeoutClear(c)
    \/ \E c \in Tasks : PendTimeoutExit(c)
    \/ \E c \in Tasks : PendReturn(c)

SpecOrder == InitOrder /\ [][NextOrder]_vars

\* ---- types ----
TypeOK ==
    /\ sem_tokens \in [Sems -> 0..(2 ^ TokenWidth - 1)]
    /\ sem_head \in [Sems -> Tasks \cup {NULL}]
    /\ t_flags \in [Tasks -> BOOLEAN]
    /\ t_sem_list \in [Tasks -> Tasks \cup {NULL}]
    /\ t_state \in [Tasks -> {"ready", "sleep"}]
    /\ crit \in Ctx \cup {NoCrit}

\* ---- what the claims speak of ----

\* no operation is in progress
Settled == \A c \in Ctx : pc[c] = "idle"

\* context c makes the step that calls os_sem_pend(s, to)
PendCalled(c, s) == pc[c] = "idle" /\ op'[c] = "pend" /\ sem'[c] = s

\* context c makes the step that calls os_sem_release(s)
ReleaseCalled(c, s) == pc[c] = "idle" /\ op'[c] = "release" /\ sem'[c] = s

\* context c makes the step that calls os_sem_delete(s)
DeleteCalled(c, s) == pc[c] = "idle" /\ op'[c] = "delete" /\ sem'[c] = s

\* the place of task t in sequence q (0 when it is not there)
Pos(q, t) == IF t \in Members(q) THEN CHOOSE i \in 1..Len(q) : q[i] = t ELSE 0

\* ---- C1 ----

\* C1: in every reachable state, a semaphore whose token count is greater
\* than 0 has an empty wait queue.
C1_TokensImplyEmptyQueue ==
    \A s \in Sems : sem_tokens[s] > 0 => sem_head[s] = NULL /\ WaitQueue(s) = <<>>

\* C1 witness: a token is banked on a live semaphore after a pend on it has
\* timed out and a release has run.
C1_Witness ==
    \E s \in Sems :
        /\ live[s] /\ sem_tokens[s] > 0 /\ sem_head[s] = NULL
        /\ ~clean /\ quota.pend < MaxPends /\ quota.release < MaxReleases
        /\ Settled

\* ---- C2 ----

\* C2: with no timeout expired and no delete, once no operation is in
\* progress each token count equals the initial tokens plus the completed
\* releases minus the pends that returned Ok; and no token count is negative.
C2_TokenAccounting ==
    /\ \A s \in Sems : sem_tokens[s] >= 0
    /\ (clean /\ Settled) => \A s \in Sems : sem_tokens[s] = expected[s]

\* C2 witness: all is settled after two pends and two releases, none timed out.
C2_Witness ==
    /\ clean /\ Settled
    /\ quota.pend = 0 /\ quota.release = 0
    /\ \E s \in Sems : sem_tokens[s] = 0 /\ expected[s] = 0

\* ---- C3 ----

\* C3: no release loses a token.  Each call of release on s either serves one
\* task that waits in pend on s (the head of the list; the token count is
\* left alone) or, the list being empty, adds one token; and a task that a
\* release has served returns Ok from its pend.
C3_NoLostToken ==
    [][/\ \A c \in Ctx, s \in Sems :
              ReleaseCalled(c, s) =>
                  \/ /\ sem_head[s] # NULL
                     /\ sem_head[s] \in Waiting(s)
                     /\ sem_tokens'[s] = sem_tokens[s]
                  \/ /\ sem_head[s] = NULL
                     /\ sem_tokens'[s] = sem_tokens[s] + 1
       /\ \A t \in Tasks :
              (granted'[t] /\ pc[t] # "ret" /\ pc'[t] = "ret") => rc'[t] = "OS_OK"]_vars

\* ---- C4 ----

\* C4: no wakeup is lost.  A task that linked itself in pend and was dequeued
\* and woken by a release is not asleep in os_sched_sleep: it is ready to
\* resume, whether the release came before or after its call of sleep.
C4_NoLostWakeup ==
    \A t \in Tasks : (pc[t] = "pend_asleep" /\ granted[t]) => t_state[t] = "ready"

\* ---- C5 ----

\* C5: service is by priority.  A release that wakes a task waiting on s wakes
\* one whose priority value is the least among the tasks waiting on s; and the
\* wait list is sorted by non-decreasing priority value from head to tail.
C5_PriorityOrder ==
    [][/\ \A c \in Ctx, s \in Sems :
              (ReleaseCalled(c, s) /\ sem_head[s] \in Members(arrivals[s])) =>
                  \A w \in Members(arrivals[s]) : t_prio[sem_head[s]] <= t_prio[w]
       /\ \A t \in Tasks :
              t_sem_list'[t] # NULL => t_prio[t] <= t_prio[t_sem_list'[t]]]_vars

\* ---- C6 ----

\* C6: among equal priorities service is first-in first-out.  A release that
\* wakes a task waiting on s leaves no task of the same priority waiting on s
\* that linked itself earlier.
C6_FifoAmongEquals ==
    [][\A c \in Ctx, s \in Sems :
           (ReleaseCalled(c, s) /\ sem_head[s] \in Members(arrivals[s])) =>
               \A w \in Members(arrivals[s]) :
                   t_prio[w] = t_prio[sem_head[s]] =>
                       Pos(arrivals[s], sem_head[s]) <= Pos(arrivals[s], w)]_vars

\* ---- C7 ----

\* C7: delete wakes every task of the wait list and leaves the semaphore with
\* no tokens and an empty list; a task that delete dequeued while it was
\* blocked in pend, and that no release has served, returns Timeout from that
\* pend.
C7_DeleteWakesAll ==
    [][/\ \A c \in Ctx, s \in Sems :
              DeleteCalled(c, s) =>
                  /\ sem_tokens'[s] = 0
                  /\ sem_head'[s] = NULL
                  /\ \A t \in Members(WaitQueue(s)) : t_state'[t] = "ready"
       /\ \A t \in Tasks :
              (evicted'[t] /\ ~granted'[t] /\ pc[t] # "ret" /\ pc'[t] = "ret") =>
                  rc'[t] = "OS_TIMEOUT"]_vars

\* ---- C8 ----

\* C8: pend with timeout 0 on a semaphore with no tokens returns Timeout at
\* once.  The call sets rc to Timeout and changes neither the token count, the
\* wait list, the caller's wait flag (clear) nor its run state; from there the
\* call goes only to its return, with that rc, and is never in os_sched_sleep.
C8_ZeroTimeoutFails ==
    [][\A c \in Tasks :
          /\ \A s \in Sems :
                 (PendCalled(c, s) /\ timeout'[c] = NoWait /\ sem_tokens[s] = 0) =>
                     /\ rc'[c] = "OS_TIMEOUT"
                     /\ pc'[c] = "pend_exit"
                     /\ ~sched'[c]
                     /\ ~t_flags'[c]
                     /\ t_state'[c] = "ready"
                     /\ UNCHANGED <<sem_tokens, sem_head, t_sem_list, t_flags, t_state>>
          /\ (op[c] = "pend" /\ timeout[c] = NoWait /\ rc[c] = "OS_TIMEOUT"
                  /\ pc[c] = "pend_exit" /\ pc'[c] # pc[c]) =>
                 /\ pc'[c] = "ret"
                 /\ rc'[c] = "OS_TIMEOUT"
                 /\ UNCHANGED <<sem_tokens, sem_head, t_sem_list, t_flags, t_state>>]_vars

\* C8 witness: a pend with timeout 0 is about to return Timeout.
C8_Witness ==
    \E c \in Tasks :
        /\ pc[c] = "ret" /\ op[c] = "pend"
        /\ timeout[c] = NoWait /\ rc[c] = "OS_TIMEOUT"
        /\ ~t_flags[c] /\ t_state[c] = "ready"

\* ---- C9 ----

\* C9: pend on a semaphore with tokens returns Ok whatever the timeout.  The
\* call sets rc to Ok, takes exactly one token, and changes neither the wait
\* list, the caller's wait flag nor its run state; from there the call goes
\* only to its return, with that rc, and is never in os_sched_sleep.
C9_TokenTaken ==
    [][\A c \in Tasks :
          /\ \A s \in Sems :
                 (PendCalled(c, s) /\ sem_tokens[s] > 0) =>
                     /\ rc'[c] = "OS_OK"
                     /\ pc'[c] = "pend_exit"
                     /\ ~sched'[c]
                     /\ sem_tokens' = [sem_tokens EXCEPT ![s] = sem_tokens[s] - 1]
                     /\ t_state'[c] = "ready"
                     /\ UNCHANGED <<sem_head, t_sem_list, t_flags, t_state>>
          /\ (op[c] = "pend" /\ rc[c] = "OS_OK" /\ pc[c] = "pend_exit" /\ pc'[c] # pc[c]) =>
                 /\ pc'[c] = "ret"
                 /\ rc'[c] = "OS_OK"
                 /\ UNCHANGED <<sem_tokens, sem_head, t_sem_list, t_flags, t_state>>]_vars

\* C9 witness: a pend that would wait forever has taken the last token and is
\* about to return Ok without having been linked or suspended.
C9_Witness ==
    \E c \in Tasks :
        /\ pc[c] = "ret" /\ op[c] = "pend"
        /\ timeout[c] = OS_TIMEOUT_NEVER /\ rc[c] = "OS_OK"
        /\ ~sched[c]
        /\ sem_tokens[sem[c]] = 0

\* ---- C10 ----

\* C10: in every reachable state a task is in the wait list of at most one
\* semaphore, and at most once in that list.
C10_InOneQueueOnce ==
    /\ \A t \in Tasks : \A s1, s2 \in Sems :
           (t \in Members(WaitQueue(s1)) /\ t \in Members(WaitQueue(s2))) => s1 = s2
    /\ \A s \in Sems : Cardinality(Members(WaitQueue(s))) = Len(WaitQueue(s))

\* ---- C11 ----

\* C11: create, release, pend and delete called with a NULL semaphore return
\* OS_INVALID_PARM and do nothing else.  The call enters no critical section
\* and changes no field of a semaphore or of a task; from there it goes only
\* to its return, with that value, through no scheduler call.
C11_NullSemRejected ==
    [][\A c \in Ctx :
          /\ (pc[c] = "idle" /\ op'[c] # "none" /\ sem'[c] = NULL) =>
                 /\ rc'[c] = "OS_INVALID_PARM"
                 /\ pc'[c] = "inval"
                 /\ crit = NoCrit /\ crit' = NoCrit
                 /\ UNCHANGED <<semvars, taskvars>>
          /\ pc[c] = "inval" => rc[c] = "OS_INVALID_PARM"
          /\ (pc[c] = "inval" /\ pc'[c] # "inval") =>
                 /\ pc'[c] = "idle"
                 /\ UNCHANGED <<semvars, taskvars, crit>>]_vars

\* C11 witness: os_sem_delete(NULL) is about to return OS_INVALID_PARM while a
\* task is linked on a semaphore.
C11_Witness ==
    \E c \in Tasks :
        /\ pc[c] = "inval" /\ op[c] = "delete" /\ sem[c] = NULL
        /\ rc[c] = "OS_INVALID_PARM"
        /\ \E s \in Sems : sem_head[s] # NULL

\* ---- C12 ----

C13_TestAndClearAtomic ==
    [][/\ \A t \in Tasks :
              pc[t] = "pend_to" =>
                  \A c \in Ctx, s \in Sems : ~ReleaseCalled(c, s) /\ ~DeleteCalled(c, s)
       /\ \A t \in Tasks :
              (granted'[t] /\ pc'[t] = "ret") => rc'[t] = "OS_OK"]_vars

\* ---- C14 ----

\* C14: a task that is in the wait list of a semaphore is inside pend on that
\* semaphore, and while it is blocked there its wait flag is set; so a task
\* whose pend has returned, with any outcome, is in no wait list.
C14_QueuedTasksArePending ==
    \A s \in Sems : \A t \in Members(WaitQueue(s)) :
        /\ op[t] = "pend"
        /\ sem[t] = s
        /\ pc[t] \in {"pend_sleep", "pend_asleep"} => t_flags[t]

\* ---- C15 ----

\* C15: a release on a semaphore that no task is pending on (a pend that
\* timed out has returned) adds one token and wakes no task.
C15_ReleaseAfterTimeoutBanks ==
    [][\A c \in Ctx, s \in Sems :
           (ReleaseCalled(c, s) /\ \A t \in Tasks : ~(op[t] = "pend" /\ sem[t] = s)) =>
               /\ sem_tokens'[s] = sem_tokens[s] + 1
               /\ rdy'[c] = NULL
               /\ UNCHANGED t_state]_vars

\* ---- C16 ----

\* C16: the frame of release.  On a non-empty wait list the call removes
\* exactly the head: the list afterwards is the rest of the list as it was, the
\* head has its wait flag and its link cleared and is ready, and the token
\* count, the flags, links and run states of all other tasks are as they were.
\* On an empty wait list the call adds one token and changes nothing else.
C16_ReleaseFrame ==
    [][\A c \in Ctx, s \in Sems :
           ReleaseCalled(c, s) =>
               IF sem_head[s] # NULL
               THEN /\ WaitQueue(s)' = Tail(WaitQueue(s))
                    /\ ~t_flags'[sem_head[s]]
                    /\ t_sem_list'[sem_head[s]] = NULL
                    /\ t_state'[sem_head[s]] = "ready"
                    /\ sem_tokens' = sem_tokens
                    /\ \A t \in Tasks \ {sem_head[s]} :
                           /\ t_flags'[t] = t_flags[t]
                           /\ t_sem_list'[t] = t_sem_list[t]
                           /\ t_state'[t] = t_state[t]
               ELSE /\ sem_tokens' = [sem_tokens EXCEPT ![s] = sem_tokens[s] + 1]
                    /\ UNCHANGED <<sem_head, taskvars>>]_vars

\* ---- C17 ----

\* C17: release asks for a reschedule exactly when it woke a task whose
\* priority value is strictly less than that of the current task.  The flag is
\* set inside the critical section; os_sched is reached only after the
\* critical section is left, only with the flag set, and with the woken task
\* in rdy; a release that adds a token sets no flag.
C17_ReschedRule ==
    [][\A c \in Ctx :
          /\ \A s \in Sems :
                 ReleaseCalled(c, s) =>
                     /\ crit' = c
                     /\ pc'[c] = "rel_exit"
                     /\ sem_head[s] = NULL => ~sched'[c]
                     /\ c # ISR =>
                            (sched'[c] <=>
                                 (sem_head[s] # NULL /\ t_prio[c] > t_prio[sem_head[s]]))
                     /\ (c = ISR /\ sched'[c]) =>
                            /\ sem_head[s] # NULL
                            /\ \E cur \in os_sched_get_current_task(ISR) :
                                   PrioOf(cur) > t_prio[sem_head[s]]
          /\ (pc[c] = "rel_exit" /\ pc'[c] # "rel_exit") =>
                 /\ crit' = NoCrit
                 /\ pc'[c] = "rel_sched" <=> sched[c]
                 /\ pc'[c] # "rel_sched" => pc'[c] = "idle"
          /\ pc[c] = "rel_sched" =>
                 /\ crit # c
                 /\ sched[c]
                 /\ rdy[c] # NULL]_vars

\* C17 witness: a task is about to call os_sched with the task it woke, whose
\* priority is strictly higher than its own.
C17_Witness ==
    \E c \in Tasks :
        /\ pc[c] = "rel_sched" /\ crit = NoCrit
        /\ rdy[c] # NULL /\ t_prio[c] > t_prio[rdy[c]]
        /\ t_state[rdy[c]] = "ready"

\* ---- C18 ----

\* C18: no critical section is held across a suspension point or a reschedule
\* request.  A context that is about to call os_sched_sleep, is inside it, has
\* come back from it, is about to call os_sched from release or delete, is
\* about to return from pend, or has returned, holds no critical section.
C18_NoCritAcrossSuspend ==
    \A c \in Ctx :
        pc[c] \in {"idle", "ret", "inval", "pend_sleep", "pend_asleep", "pend_to",
                   "rel_sched", "del_sched"} => crit # c

\* C18 witness: delete is about to call os_sched while a task it woke is still
\* inside os_sched_sleep, and no critical section is held.
C18_Witness ==
    \E c \in Tasks, t \in Tasks :
        /\ pc[c] = "del_sched" /\ rdy[c] = t
        /\ pc[t] = "pend_asleep" /\ evicted[t]
        /\ crit = NoCrit

\* ---- C19 ----

\* C19: every write to a token count or to a wait list (head or link) is made
\* while a critical section is held, the writes of create included.
C19_AllWritesInsideCritical ==
    [][(sem_tokens' # sem_tokens \/ sem_head' # sem_head \/ t_sem_list' # t_sem_list) =>
           crit' # NoCrit]_vars

\* C19 as the code has it: pend, release and delete write the token count and
\* the wait list only inside their critical sections; create writes both
\* fields with no critical section entered, in two steps between which other
\* contexts may run.
C19_WritesInsideCriticalButCreate ==
    [][/\ (sem_tokens' # sem_tokens \/ sem_head' # sem_head \/ t_sem_list' # t_sem_list) =>
              \/ crit' # NoCrit
              \/ \E c \in Tasks : op'[c] = "create" /\ pc'[c] = "create_head" /\ pc[c] = "idle"
       /\ \A c \in Tasks :
              ((op'[c] = "create" /\ pc[c] = "idle") \/ (op[c] = "create" /\ pc'[c] = "idle")) =>
                  crit = NoCrit /\ crit' = NoCrit]_vars

\* C19 witness: create has written the token count and not yet the list head,
\* and the interrupt handler is inside the critical section of a release.
C19_Witness ==
    \E c \in Tasks :
        /\ pc[c] = "create_head" /\ sem_tokens[sem[c]] = MaxInitTokens
        /\ pc[ISR] = "rel_exit" /\ crit = ISR

\* ---- C20 ----

\* C20: the scan of pend ends in every reachable state: no call of pend is
\* left walking the wait list for ever, so every pend reaches its return or
\* its call of os_sched_sleep.
C20_ScanTerminates ==
    \A c \in Tasks : pc[c] # "pend_spin"

====
